---------------------------- MODULE Spec2Model ----------------------------
(***************************************************************************)
(* A model of kwant's low-level system layer (src/kwant/system.py):        *)
(* FiniteSystemMixin.precalculate and PrecalculatedLead,                   *)
(* InfiniteSystemMixin.modes / selfenergy, InfiniteSystem.cell_hamiltonian *)
(* and inter_cell_hopping, _normalize_matrix_blocks and                    *)
(* VectorizedSystem.site_ranges.                                           *)
(*                                                                         *)
(* Each part of the layer has its own specification (SpecPre, ...) over    *)
(* its own variables; the variables of the other parts stay at their       *)
(* initial values.                                                         *)
(***************************************************************************)
EXTENDS Integers, Sequences, FiniteSets, TLC

(***************************************************************************)
(* Bounds of the model.                                                    *)
(***************************************************************************)
MaxLeads == 2        \* longest leads sequence of the source system
MaxCalls == 2        \* precalculate calls made in one behaviour
MaxAccess == 2       \* modes / selfenergy calls on one PrecalculatedLead
MaxCell == 2         \* largest cell_size of an infinite system
MaxNorbs == 2        \* largest number of orbitals of a site
MaxDim == 2          \* largest extent of an array dimension
MaxArrays == 2       \* most site arrays of a vectorized system
MaxSites == 2        \* most sites of a site array
MaxComputes == 2     \* derivations of site_ranges followed per instance
MaxDirs == 2         \* most directions of a symmetry; length of a tag
MaxCoord == 1        \* largest coordinate of a tag
MaxTags == 2         \* most sites of a site array handed to a symmetry
MaxReprLen == 2      \* longest canonical representation of a site family

(***************************************************************************)
(* Python values.  Every value is a record with a tag t, so that values    *)
(* of different Python types can be compared.                              *)
(***************************************************************************)
NoneVal == [t |-> "None"]

Threads == {"t1", "t2"}
Energies == {0, 1}
ParamSets == {"pA"}
Whats == {"modes", "selfenergy", "all", "bogus"}

\* A reference to a lead object: an externally built lead (an infinite
\* system used as a lead) or a PrecalculatedLead on the heap.
InfRef(n) == [k |-> "inf", id |-> n]
PreRef(n) == [k |-> "pre", id |-> n]

SysIds == 1..(MaxCalls + 1)
ListIds == 1..(MaxCalls + 1)
PreIds == 1..(MaxCalls * MaxLeads)

\* The `leads` arguments tried: None, and the selections of the first and
\* the last index of the longest leads sequence.
LeadsArgs ==
    {NoneVal} \cup {[t |-> "idx", items |-> S] : S \in SUBSET {0, MaxLeads - 1}}

VARIABLES
    systems,    \* heap of finite systems: id -> [live, published, leads (a list id)]
    lists,      \* heap of Python lists of leads: id -> [live, items]
    pleads,     \* heap of PrecalculatedLead objects
    th,         \* the frame of each thread's precalculate call
    ncalls      \* precalculate calls started so far

preVars == <<systems, lists, pleads, th, ncalls>>

VARIABLES
    plObj,      \* the PrecalculatedLead a caller constructed itself (or none)
    plGiven,    \* the arguments it was constructed with
    plOut,      \* outcome of the last operation on it
    plCalls     \* modes / selfenergy calls made on it

leadVars == <<plObj, plGiven, plOut, plCalls>>

VARIABLES
    isys,       \* an infinite system: cell_size, num_nodes, norbs, Hamiltonian, symmetries
    mOut        \* what the last operation on it requested, validated and handed on

infVars == <<isys, mOut>>

VARIABLES
    nmIn,       \* the arguments of _normalize_matrix_blocks
    nmOut       \* its outcome

nmVars == <<nmIn, nmOut>>

VARIABLES
    site_arrays,  \* the site arrays of each vectorized system instance
    srCache,      \* the cache of the site_ranges function: at most one entry
    srOut,        \* the last access of site_ranges and what it returned
    srComputes    \* how often the body of site_ranges ran for each instance

srVars == <<site_arrays, srCache, srOut, srComputes>>

VARIABLES
    sym,        \* a symmetry object: its class and its number of directions
    symOut      \* the last operation on it: arguments and outcome

symVars == <<sym, symOut>>

VARIABLES
    fams,       \* two site family objects
    famOut      \* the last comparison or hash of families and its outcome

famVars == <<fams, famOut>>

VARIABLES
    siteOut     \* the last construction of a Site and its outcome

siteVars == <<siteOut>>

VARIABLES
    vsys,       \* an infinite vectorized system: site arrays, interface arrays first
    vecOut      \* the last Hamiltonian accessor called on it and its outcome

vecVars == <<vsys, vecOut>>

vars == <<preVars, leadVars, infVars, nmVars, srVars, symVars, famVars, siteVars,
          vecVars>>

FreeSys == [live |-> FALSE, published |-> FALSE, leads |-> 0]
FreeList == [live |-> FALSE, items |-> <<>>]
FreePre == [live |-> FALSE, _modes |-> NoneVal, _selfenergy |-> NoneVal,
            parameters |-> {}]

IdleFrame ==
    [pc |-> "idle", self |-> 0, energy |-> 0, params |-> "pA",
     what |-> "modes", leadsArg |-> NoneVal, leads |-> {},
     result |-> 0, new_leads |-> 0, nr |-> 0, log |-> <<>>,
     exc |-> "", made |-> {}, call |-> 0]

\* Addresses of the objects the c-th precalculate call allocates: its copy
\* of the system, its new list, and the PrecalculatedLead of lead number nr.
NewSysId(c) == c + 1
NewListId(c) == c + 1
NewPreId(c, nr) == (c - 1) * MaxLeads + nr + 1

(***************************************************************************)
(* The lead protocol (the external collaborators of precalculate).         *)
(***************************************************************************)
\* lead.modes(energy, args, params=params) of an infinite system used as a
\* lead: a pair (PropagatingModes, StabilizedModes).
InfModes(n, energy, params) ==
    [t |-> "tuple",
     items |-> <<[t |-> "prop", lead |-> n, energy |-> energy, params |-> params],
                 [t |-> "stab", lead |-> n, energy |-> energy, params |-> params]>>]

\* lead.selfenergy(energy, args, params=params) of such a lead.
InfSelfenergy(n, energy, params) ==
    [t |-> "array", via |-> "lead.selfenergy", lead |-> n,
     energy |-> energy, params |-> params]

\* StabilizedModes.selfenergy(), of the second element of a modes result.
StabSelfenergy(stab) ==
    [t |-> "array", via |-> "modes[1].selfenergy", lead |-> stab.lead,
     energy |-> stab.energy, params |-> stab.params]

\* Python truth value of a modes result (None and the empty tuple are false).
Truthy(v) == v.t # "None" /\ (v.t = "tuple" => Len(v.items) > 0)

(***************************************************************************)
(* PrecalculatedLead                                                       *)
(***************************************************************************)
\* The check demands both values instead of at least one.
PrecalculatedLeadInitBoth(modes, selfenergy) ==
    IF modes = NoneVal \/ selfenergy = NoneVal
    THEN [ok |-> FALSE, exc |-> "ValueError", obj |-> FreePre]
    ELSE [ok |-> TRUE, exc |-> "",
          obj |-> [live |-> TRUE, _modes |-> modes, _selfenergy |-> selfenergy,
                   parameters |-> {}]]

\* PrecalculatedLead.__init__: the new object, or the error raised.
PrecalculatedLeadInit(modes, selfenergy) ==
    IF modes = NoneVal /\ selfenergy = NoneVal
    THEN [ok |-> FALSE, exc |-> "ValueError", obj |-> FreePre]
    ELSE [ok |-> TRUE, exc |-> "",
          obj |-> [live |-> TRUE, _modes |-> modes, _selfenergy |-> selfenergy,
                   parameters |-> {}]]

\* The stored modes are handed out as modes of the energy asked for.
PrecalculatedLeadModesAtEnergy(obj, energy, params) ==
    IF obj._modes # NoneVal
    THEN [ok |-> TRUE, exc |-> "",
          val |-> [obj._modes EXCEPT
                     !.items = [i \in 1..Len(@) |-> [@[i] EXCEPT !.energy = energy]]]]
    ELSE [ok |-> FALSE, exc |-> "ValueError", val |-> NoneVal]

\* PrecalculatedLead.modes(energy, args, params=params).
PrecalculatedLeadModes(obj, energy, params) ==
    IF obj._modes # NoneVal
    THEN [ok |-> TRUE, exc |-> "", val |-> obj._modes]
    ELSE [ok |-> FALSE, exc |-> "ValueError", val |-> NoneVal]

\* PrecalculatedLead.selfenergy(energy, args, params=params).
PrecalculatedLeadSelfenergy(obj, energy, params) ==
    IF obj._selfenergy # NoneVal
    THEN [ok |-> TRUE, exc |-> "", val |-> obj._selfenergy]
    ELSE [ok |-> FALSE, exc |-> "ValueError", val |-> NoneVal]

\* lead.modes(...) dispatched on the kind of lead.
LeadModes(lead, energy, params) ==
    IF lead.k = "inf"
    THEN [ok |-> TRUE, exc |-> "", val |-> InfModes(lead.id, energy, params)]
    ELSE PrecalculatedLeadModes(pleads[lead.id], energy, params)

\* lead.selfenergy(...) dispatched on the kind of lead.
LeadSelfenergy(lead, energy, params) ==
    IF lead.k = "inf"
    THEN [ok |-> TRUE, exc |-> "", val |-> InfSelfenergy(lead.id, energy, params)]
    ELSE PrecalculatedLeadSelfenergy(pleads[lead.id], energy, params)


(***************************************************************************)
(* Infinite systems: InfiniteSystem and InfiniteSystemMixin                *)
(***************************************************************************)
SymmetryNames == {"Conservation law", "Time reversal", "Particle-hole", "Chiral"}
SymmetryAttrs == {"projectors", "time_reversal", "particle_hole", "chiral"}
InfEnergies == {-1, 0, 1}
InfParams == {"pA", "pB"}

\* Python's range(a, b), as a sequence of site numbers.
Range(a, b) == [i \in 1..(IF b > a THEN b - a ELSE 0) |-> a + i - 1]

RECURSIVE SumSeq(_)
SumSeq(q) == IF q = <<>> THEN 0 ELSE q[1] + SumSeq(Tail(q))

\* Orbitals of site number i: the sites after the first cell_size ones are
\* the first sites of the previous cell.
Norbs(sys, i) ==
    IF i < sys.cell_size THEN sys.norbs[i + 1] ELSE sys.norbs[i - sys.cell_size + 1]

\* Offset of the first orbital of site i among the orbitals of the graph.
OrbOffset(sys, i) == SumSeq([k \in 1..i |-> Norbs(sys, k - 1)])

\* The orbitals (numbered from 1) of the sites of a sequence, in order.
RECURSIVE OrbitalsOf(_, _)
OrbitalsOf(sys, sites) ==
    IF sites = <<>> THEN <<>>
    ELSE [o \in 1..Norbs(sys, sites[1]) |-> OrbOffset(sys, sites[1]) + o]
         \o OrbitalsOf(sys, Tail(sites))

\* The Hamiltonian matrix element between two orbitals of the graph.
Elem(sys, a, b, params) ==
    (IF a = b THEN sys.onsite ELSE a + b) + (IF params = "pB" THEN 10 ELSE 0)

\* hamiltonian_submatrix(args, rows, cols, sparse=..., params=...): the
\* blocks of the row and column sites packed by orbital offsets.
HamiltonianSubmatrix(sys, rows, cols, sparse, params) ==
    LET ro == OrbitalsOf(sys, rows)
        co == OrbitalsOf(sys, cols)
    IN  [t |-> IF sparse THEN "sparse" ELSE "dense",
         shape |-> <<Len(ro), Len(co)>>,
         data |-> [i \in 1..Len(ro) |-> [j \in 1..Len(co) |->
                     Elem(sys, ro[i], co[j], params)]]]

Request(rows, cols, sparse, params) ==
    [rows |-> rows, cols |-> cols, sparse |-> sparse, params |-> params]

\* `cell_sites = range(self.cell_size)`
CellSites(sys) == Range(0, sys.cell_size)

\* The interface sites taken to be the sites they stand for in the cell.
InterfaceSitesAliased(sys) == Range(0, sys.num_nodes - sys.cell_size)

\* `interface_sites = range(self.cell_size, self.graph.num_nodes)`
InterfaceSites(sys) == Range(sys.cell_size, sys.num_nodes)

\* InfiniteSystem.cell_hamiltonian: the request made and its result.
CellHamiltonianOf(sys, sparse, params) ==
    [req |-> Request(CellSites(sys), CellSites(sys), sparse, params),
     val |-> HamiltonianSubmatrix(sys, CellSites(sys), CellSites(sys), sparse, params)]

\* InfiniteSystem.inter_cell_hopping: the request made and its result.
InterCellHoppingOf(sys, sparse, params) ==
    [req |-> Request(CellSites(sys), InterfaceSites(sys), sparse, params),
     val |-> HamiltonianSubmatrix(sys, CellSites(sys), InterfaceSites(sys),
                                  sparse, params)]

\* discrete_symmetry(args, params=params): a new descriptor holding the
\* symmetries the system declares; an attribute is "set", "None", or
\* "absent" when the object has no such attribute.
DiscreteSymmetryOf(sys) ==
    [a \in SymmetryAttrs \cup {"particle-hole"} |->
        IF a \in sys.declared THEN "set"
        ELSE IF a \in SymmetryAttrs THEN "None" ELSE "absent"]

\* `attribute_names`
AttributeNames(name) ==
    CASE name = "Conservation law" -> "projectors"
      [] name = "Time reversal" -> "time_reversal"
      [] name = "Particle-hole" -> "particle-hole"
      [] name = "Chiral" -> "chiral"

\* The loop `for name in broken: ... setattr(symmetries, attribute_names[name], None)`
DropBroken(symmetries, broken) ==
    [a \in DOMAIN symmetries |->
        IF \E name \in broken : AttributeNames(name) = a THEN "None"
        ELSE symmetries[a]]

\* The stride is the number of rows: `ham.flat[::ham.shape[0]] -= energy`.
SubtractWithStrideOfRows(ham, energy) ==
    [ham EXCEPT !.data =
        [i \in 1..ham.shape[1] |-> [j \in 1..ham.shape[2] |->
            IF ((i - 1) * ham.shape[2] + (j - 1)) % ham.shape[1] = 0
            THEN ham.data[i][j] - energy
            ELSE ham.data[i][j]]]]

\* `ham.flat[::ham.shape[0] + 1] -= energy`: every (shape[0] + 1)-th element
\* of the matrix in row-major order.
SubtractFromDiagonal(ham, energy) ==
    [ham EXCEPT !.data =
        [i \in 1..ham.shape[1] |-> [j \in 1..ham.shape[2] |->
            IF ((i - 1) * ham.shape[2] + (j - 1)) % (ham.shape[1] + 1) = 0
            THEN ham.data[i][j] - energy
            ELSE ham.data[i][j]]]]

\* Only positive energies count as nonzero.
EnergyPositive(energy) == energy > 0

\* `if energy:`
EnergyNonzero(energy) == energy # 0

\* `symmetries.particle_hole = symmetries.chiral = None` when energy is nonzero.
ZeroEnergyOnly(symmetries, energy) ==
    IF EnergyNonzero(energy)
    THEN [symmetries EXCEPT !["particle_hole"] = "None", !["chiral"] = "None"]
    ELSE symmetries

NoOut ==
    [op |-> "none", energy |-> 0, params |-> "pA", sparse |-> FALSE,
     requests |-> <<>>, validated |-> <<>>, broken |-> {}, warnings |-> {},
     routine |-> "none", handed |-> <<>>, symmetries |-> <<>>, result |-> <<>>]

\* The names symmetries.validate(matrix) may report: any of the symmetries
\* the descriptor declares.
SymmetryName(attr) ==
    CASE attr = "projectors" -> "Conservation law"
      [] attr = "time_reversal" -> "Time reversal"
      [] attr = "particle_hole" -> "Particle-hole"
      [] attr = "chiral" -> "Chiral"

ValidateResults(symmetries) ==
    SUBSET {SymmetryName(a) : a \in {x \in SymmetryAttrs : symmetries[x] = "set"}}

\* InfiniteSystemMixin.modes(energy, params=params)
Modes(energy, params) ==
    LET ham == CellHamiltonianOf(isys, FALSE, params)
        hop == InterCellHoppingOf(isys, FALSE, params)
        symmetries == DiscreteSymmetryOf(isys)
        shifted == SubtractFromDiagonal(ham.val, energy)
        base == [NoOut EXCEPT
                   !.op = "modes", !.energy = energy, !.params = params,
                   !.requests = <<ham.req, hop.req>>,
                   !.validated = <<ham.val, hop.val>>,
                   !.routine = "physics.modes",
                   !.handed = <<shifted, hop.val>>]
    IN  /\ mOut.op = "none"
        /\ ham.val.shape[1] = ham.val.shape[2]
        /\ \E brokenHam \in ValidateResults(symmetries),
              brokenHop \in ValidateResults(symmetries) :
              LET broken == brokenHam \cup brokenHop
              IN  mOut' = [base EXCEPT
                             !.broken = broken, !.warnings = broken,
                             !.symmetries =
                                ZeroEnergyOnly(DropBroken(symmetries, broken), energy)]
        /\ UNCHANGED <<isys, preVars, leadVars, nmVars, srVars, symVars, famVars, siteVars, vecVars>>

\* InfiniteSystemMixin.selfenergy(energy, params=params)
Selfenergy(energy, params) ==
    LET ham == CellHamiltonianOf(isys, FALSE, params)
        shifted == SubtractFromDiagonal(ham.val, energy)
        hop == InterCellHoppingOf(isys, FALSE, params)
    IN  /\ mOut.op = "none"
        /\ ham.val.shape[1] = ham.val.shape[2]
        /\ mOut' = [NoOut EXCEPT
                      !.op = "selfenergy", !.energy = energy, !.params = params,
                      !.requests = <<ham.req, hop.req>>,
                      !.routine = "physics.selfenergy",
                      !.handed = <<shifted, hop.val>>]
        /\ UNCHANGED <<isys, preVars, leadVars, nmVars, srVars, symVars, famVars, siteVars, vecVars>>

\* InfiniteSystem.cell_hamiltonian(sparse=sparse, params=params)
CellHamiltonian(sparse, params) ==
    LET r == CellHamiltonianOf(isys, sparse, params)
    IN  /\ mOut.op = "none"
        /\ mOut' = [NoOut EXCEPT
                      !.op = "cell_hamiltonian", !.params = params,
                      !.sparse = sparse, !.requests = <<r.req>>,
                      !.result = <<r.val>>]
        /\ UNCHANGED <<isys, preVars, leadVars, nmVars, srVars, symVars, famVars, siteVars, vecVars>>

\* InfiniteSystem.inter_cell_hopping(sparse=sparse, params=params)
InterCellHopping(sparse, params) ==
    LET r == InterCellHoppingOf(isys, sparse, params)
    IN  /\ mOut.op = "none"
        /\ mOut' = [NoOut EXCEPT
                      !.op = "inter_cell_hopping", !.params = params,
                      !.sparse = sparse, !.requests = <<r.req>>,
                      !.result = <<r.val>>]
        /\ UNCHANGED <<isys, preVars, leadVars, nmVars, srVars, symVars, famVars, siteVars, vecVars>>

\* The caller takes the result of the operation.
Return ==
    /\ mOut.op # "none"
    /\ mOut' = NoOut
    /\ UNCHANGED <<isys, preVars, leadVars, nmVars, srVars, symVars, famVars, siteVars, vecVars>>

\* The infinite systems tried.  modes() handles the matrices and the
\* symmetry descriptor independently of each other, so the systems are:
\* every geometry (cell size, interface size, orbitals per site, onsite
\* value) with the default descriptor, which declares no symmetry, and
\* every set of declared symmetries on the smallest geometry.
GeometrySystems ==
    {[cell_size |-> c, num_nodes |-> c + i, norbs |-> nb, onsite |-> h,
      declared |-> {}] :
        c \in 1..MaxCell, i \in 1..MaxCell,
        nb \in UNION {[1..k -> 1..MaxNorbs] : k \in 1..MaxCell},
        h \in {0, 2}}

SymmetrySystems ==
    {[cell_size |-> 1, num_nodes |-> 2, norbs |-> <<1>>, onsite |-> h,
      declared |-> d] : h \in {0, 2}, d \in SUBSET SymmetryAttrs}

InfInit ==
    /\ isys \in {sys \in GeometrySystems \cup SymmetrySystems :
                    /\ Len(sys.norbs) = sys.cell_size
                    /\ sys.num_nodes - sys.cell_size <= sys.cell_size}
    /\ mOut = NoOut

\* The infinite system of the specifications that are not about it.
InfQuiet ==
    /\ isys = [cell_size |-> 1, num_nodes |-> 2, norbs |-> <<1>>, onsite |-> 0,
               declared |-> {}]
    /\ mOut = NoOut

(***************************************************************************)
(* _normalize_matrix_blocks                                                *)
(*                                                                         *)
(* An array is its shape and its elements in row-major order.  An element  *)
(* is [k, re, im] with k the Python type it has ("int" or "complex").      *)
(***************************************************************************)
RECURSIVE Product(_)
Product(q) == IF q = <<>> THEN 1 ELSE q[1] * Product(Tail(q))

\* complex(x)
ToComplex(e) == [k |-> "complex", re |-> e.re, im |-> e.im]

\* `np.asarray(blocks, dtype=complex)`
AsArrayComplex(blocks) ==
    [shape |-> blocks.shape,
     flat |-> [i \in 1..Len(blocks.flat) |-> ToComplex(blocks.flat[i])]]

\* Every element repeated n times in place, as np.repeat does.
RepeatFlat(flat, n) ==
    [i \in 1..(n * Len(flat)) |-> flat[((i - 1) \div n) + 1]]

\* The elements of n copies of an array, one copy after the other.
TileFlat(flat, n) ==
    [i \in 1..(n * Len(flat)) |-> flat[((i - 1) % Len(flat)) + 1]]

\* `np.tile(blocks, (n, 1, 1))` of an array of at most 2 dimensions: the
\* shape is padded with leading ones to 3 dimensions and repeated n times
\* along the first.
Tile(arr, n) ==
    LET p == [i \in 1..(3 - Len(arr.shape)) |-> 1] \o arr.shape
    IN  [shape |-> <<n * p[1], p[2], p[3]>>, flat |-> TileFlat(arr.flat, n)]

\* `blocks.reshape(-1, 1, 1)`
ReshapeColumn(arr) == [shape |-> <<Len(arr.flat), 1, 1>>, flat |-> arr.flat]

\* The branches on `len(blocks.shape)`: lines 1004-1011.
Broadcast(arr, expected_shape) ==
    IF Len(arr.shape) = 0 THEN Tile(arr, expected_shape[1])
    ELSE IF Len(arr.shape) = 1 THEN ReshapeColumn(arr)
    ELSE IF Len(arr.shape) = 2 THEN Tile(arr, expected_shape[1])
    ELSE arr

\* Only the number of blocks is compared.
ShapeDiffersInCount(shape, expected_shape) ==
    Len(shape) # 3 \/ shape[1] # expected_shape[1]

\* `blocks.shape != expected_shape`
ShapeDiffers(shape, expected_shape) == shape # expected_shape

NoArray == [shape |-> <<>>, flat |-> <<>>]

\* _normalize_matrix_blocks(blocks, expected_shape): the array returned or
\* the error raised.
NormalizeMatrixBlocks(blocks, expected_shape) ==
    IF blocks.t = "ragged"
    THEN [ok |-> FALSE, exc |-> "ValueError", val |-> NoArray]
    ELSE LET b == Broadcast(AsArrayComplex(blocks), expected_shape)
         IN  IF ShapeDiffers(b.shape, expected_shape)
             THEN [ok |-> FALSE, exc |-> "ValueError", val |-> NoArray]
             ELSE [ok |-> TRUE, exc |-> "", val |-> b]

\* The call of _normalize_matrix_blocks on the arguments.
Normalize ==
    LET r == NormalizeMatrixBlocks(nmIn.blocks, nmIn.expected_shape)
    IN  /\ nmOut.op = "none"
        /\ nmOut' = [op |-> "normalize", ok |-> r.ok, exc |-> r.exc, val |-> r.val]
        /\ UNCHANGED <<nmIn, preVars, leadVars, infVars, srVars, symVars, famVars, siteVars, vecVars>>

\* The values tried: for every shape of up to 4 dimensions, an array of
\* Python ints and one of complex numbers, its elements all different; and
\* a nested sequence that is no array (rows of unequal length).
Shapes == UNION {[1..k -> 0..MaxDim] : k \in 0..4}

InputArray(shape, kind) ==
    [t |-> "array", shape |-> shape,
     flat |-> [i \in 1..Product(shape) |->
                 [k |-> kind, re |-> i, im |-> IF kind = "complex" THEN 1 ELSE 0]]]

Ragged == [t |-> "ragged", shape |-> <<>>, flat |-> <<>>]

Inputs == {InputArray(sh, kind) : sh \in Shapes, kind \in {"int", "complex"}}
             \cup {Ragged}

ExpectedShapes == {<<c, r, k>> : c \in 0..MaxDim, r \in 1..MaxDim, k \in 1..MaxDim}

NmNoOut == [op |-> "none", ok |-> TRUE, exc |-> "", val |-> NoArray]

NmInit ==
    /\ nmIn \in {[blocks |-> b, expected_shape |-> e] : b \in Inputs, e \in ExpectedShapes}
    /\ nmOut = NmNoOut

NmQuiet ==
    /\ nmIn = [blocks |-> Ragged, expected_shape |-> <<0, 1, 1>>]
    /\ nmOut = NmNoOut

(***************************************************************************)
(* VectorizedSystem.site_ranges                                            *)
(*                                                                         *)
(* A site array is [len, norbs]: its number of sites and the norbs of its  *)
(* family.  site_ranges is a property whose function is wrapped in         *)
(* lru_cache(1): one cache, of one entry, for the function, keyed by the   *)
(* instance it is called on.                                               *)
(***************************************************************************)
Instances == {"a", "b"}

\* `np.cumsum(q)`
RECURSIVE CumSum(_)
CumSum(q) ==
    IF q = <<>> THEN <<>>
    ELSE LET front == CumSum(SubSeq(q, 1, Len(q) - 1))
         IN  Append(front, (IF front = <<>> THEN 0 ELSE front[Len(front)]) + q[Len(q)])

\* The body of site_ranges: lines 626-631.
SiteRangesOf(arrays) ==
    LET site_offsets == CumSum(<<0>> \o [k \in 1..Len(arrays) |-> arrays[k].len])
        norbs == [k \in 1..Len(arrays) |-> arrays[k].norbs] \o <<0>>
        orb_offsets ==
            CumSum(<<0>> \o [k \in 1..Len(arrays) |-> arrays[k].len * arrays[k].norbs])
    IN  [k \in 1..(Len(arrays) + 1) |-> <<site_offsets[k], norbs[k], orb_offsets[k]>>]

\* A cache that does not look at the instance.
CacheHitAnyKey(cache, key) == cache # <<>>

\* The lookup of lru_cache: the entry of this very instance.
CacheHit(cache, key) == cache # <<>> /\ cache[1].key = key

\* An access of inst.site_ranges.
ReadSiteRanges(inst) ==
    /\ IF CacheHit(srCache, inst)
       THEN /\ srOut' = [op |-> "read", inst |-> inst, val |-> srCache[1].val]
            /\ UNCHANGED <<srCache, srComputes>>
       ELSE LET val == SiteRangesOf(site_arrays[inst])
            IN  /\ srComputes[inst] < MaxComputes
                /\ srComputes' = [srComputes EXCEPT ![inst] = @ + 1]
                /\ srCache' = <<[key |-> inst, val |-> val]>>
                /\ srOut' = [op |-> "read", inst |-> inst, val |-> val]
    /\ UNCHANGED <<site_arrays, preVars, leadVars, infVars, nmVars, symVars, famVars, siteVars, vecVars>>

Reverse(q) == [k \in 1..Len(q) |-> q[Len(q) + 1 - k]]

SiteArrayLists ==
    UNION {[1..k -> [len : 0..MaxSites, norbs : 1..MaxNorbs]] : k \in 0..MaxArrays}

SrNoOut == [op |-> "none", inst |-> "a", val |-> <<>>]

\* Two instances: one with any site arrays, one with the same arrays in
\* the opposite order.
SrInit ==
    /\ \E q \in SiteArrayLists :
          site_arrays = [i \in Instances |-> IF i = "a" THEN q ELSE Reverse(q)]
    /\ srCache = <<>>
    /\ srOut = SrNoOut
    /\ srComputes = [i \in Instances |-> 0]

SrQuiet ==
    /\ site_arrays = [i \in Instances |-> <<>>]
    /\ srCache = <<>>
    /\ srOut = SrNoOut
    /\ srComputes = [i \in Instances |-> 0]

(***************************************************************************)
(* Sites, site arrays and symmetries                                       *)
(*                                                                         *)
(* A tag is a tuple of MaxDirs integers.  A group element is a tuple of    *)
(* integers ("elem"), or one such tuple per site of a site array ("elems").*)
(* The abstract methods which and act are those of a translation symmetry  *)
(* of unit periods along the first `dirs` coordinates of the tags.         *)
(***************************************************************************)
SiteOf(family, tag) == [t |-> "Site", family |-> family, tag |-> tag]
SiteArrayOf(family, tags) == [t |-> "SiteArray", family |-> family, tags |-> tags]
PairOf(a, b) == [t |-> "pair", a |-> a, b |-> b]
BoolOf(v) == [t |-> "bool", b |-> v]
BoolsOf(q) == [t |-> "bools", bs |-> q]
ElemOf(q) == [t |-> "elem", e |-> q]
ElemsOf(q) == [t |-> "elems", es |-> q]
IntOf(n) == [t |-> "int", n |-> n]

Returned(v) == [ok |-> TRUE, exc |-> "", val |-> v]
Raised(exc) == [ok |-> FALSE, exc |-> exc, val |-> NoneVal]

\* which(site): the cell a tag lies in, along each direction.
WhichTag(s, tag) == [d \in 1..s.dirs |-> tag[d]]

Which(s, site) ==
    IF site.t = "Site" THEN ElemOf(WhichTag(s, site.tag))
    ELSE ElemsOf([k \in 1..Len(site.tags) |-> WhichTag(s, site.tags[k])])

\* Unary minus of a group element, or of each element of a sequence.
Neg(element) ==
    IF element.t = "elem" THEN ElemOf([d \in 1..Len(element.e) |-> 0 - element.e[d]])
    ELSE ElemsOf([k \in 1..Len(element.es) |->
                    [d \in 1..Len(element.es[k]) |-> 0 - element.es[k][d]]])

ActTag(e, tag) ==
    [d \in 1..Len(tag) |-> IF d <= Len(e) THEN tag[d] + e[d] ELSE tag[d]]

\* The group element acting on the k-th site of a site array.
ElementAt(element, k) == IF element.t = "elem" THEN element.e ELSE element.es[k]

ActOn(element, a) ==
    IF a.t = "Site" THEN SiteOf(a.family, ActTag(element.e, a.tag))
    ELSE SiteArrayOf(a.family,
                     [k \in 1..Len(a.tags) |-> ActTag(ElementAt(element, k), a.tags[k])])

\* act(element, a, b=None): the site(s) of a, or the hopping(s) (a, b),
\* moved by the element(s).
Act(s, element, a, b) ==
    IF b = NoneVal THEN ActOn(element, a)
    ELSE PairOf(ActOn(element, a), ActOn(element, b))

\* Symmetry.to_fd
SymmetryToFd(s, a, b) == Returned(Act(s, Neg(Which(s, a)), a, b))

\* `which != 0`, for one coordinate of a row of which
CountsForRow(d) == d # 0

\* Symmetry.in_fd
SymmetryInFd(s, site) ==
    IF site.t = "Site"
    THEN Returned(BoolOf(~ \E d \in 1..s.dirs : Which(s, site).e[d] # 0))
    ELSE IF site.t = "SiteArray"
    THEN LET which == Which(s, site).es
         IN  Returned(BoolsOf([k \in 1..Len(which) |->
                                 \A d \in 1..s.dirs : CountsForRow(which[k][d])]))
    ELSE Raised("TypeError")

\* An element is true when one of its coordinates is nonzero.
ElementHasNonzero(element) == \E d \in 1..Len(element.e) : element.e[d] # 0

\* `if element:` the truth value of a tuple
ElementTruthy(element) == Len(element.e) > 0

\* NoSymmetry.which
NoSymmetryWhich(site) == Returned(ElemOf(<<>>))

\* NoSymmetry.act
NoSymmetryAct(element, a, b) ==
    IF ElementTruthy(element) THEN Raised("ValueError")
    ELSE Returned(IF b = NoneVal THEN a ELSE PairOf(a, b))

\* NoSymmetry.to_fd
NoSymmetryToFd(a, b) == Returned(IF b = NoneVal THEN a ELSE PairOf(a, b))

\* NoSymmetry.in_fd
NoSymmetryInFd(site) == Returned(BoolOf(TRUE))

\* NoSymmetry(*args): the class defines no constructor, so the one of
\* `object` runs, which takes no arguments.
NoSymmetryNew(args) ==
    IF args # <<>> THEN Raised("TypeError")
    ELSE Returned([t |-> "sym", cls |-> "NoSymmetry", dirs |-> 0])

\* NoSymmetry.__eq__ and NoSymmetry.has_subgroup: `isinstance(other, NoSymmetry)`
NoSymmetryEq(self, other) == other.t = "sym" /\ other.cls = "NoSymmetry"
NoSymmetryHasSubgroup(self, other) == other.t = "sym" /\ other.cls = "NoSymmetry"

\* NoSymmetry.subgroup(*generators)
NoSymmetrySubgroup(generators) ==
    IF \E k \in 1..Len(generators) : ElementTruthy(generators[k])
    THEN Raised("ValueError")
    ELSE NoSymmetryNew(<<generators>>)

\* The methods of a symmetry object, by its class.
NumDirectionsOf(s) == IF s.cls = "NoSymmetry" THEN 0 ELSE s.dirs

WhichOf(s, site) ==
    IF s.cls = "NoSymmetry" THEN NoSymmetryWhich(site) ELSE Returned(Which(s, site))

ActOf(s, element, a, b) ==
    IF s.cls = "NoSymmetry" THEN NoSymmetryAct(element, a, b)
    ELSE Returned(Act(s, element, a, b))

ToFdOf(s, a, b) ==
    IF s.cls = "NoSymmetry" THEN NoSymmetryToFd(a, b) ELSE SymmetryToFd(s, a, b)

InFdOf(s, site) ==
    IF s.cls = "NoSymmetry" THEN NoSymmetryInFd(site) ELSE SymmetryInFd(s, site)

SymNoOut ==
    [op |-> "none", element |-> NoneVal, a |-> NoneVal, b |-> NoneVal,
     ok |-> TRUE, exc |-> "", val |-> NoneVal]

SymDone(op, element, a, b, r) ==
    /\ symOut.op = "none"
    /\ symOut' = [op |-> op, element |-> element, a |-> a, b |-> b,
                  ok |-> r.ok, exc |-> r.exc, val |-> r.val]
    /\ UNCHANGED <<sym, preVars, leadVars, infVars, nmVars, srVars, famVars, siteVars, vecVars>>

\* sym.num_directions
NumDirections == SymDone("num_directions", NoneVal, NoneVal, NoneVal,
                         Returned(IntOf(NumDirectionsOf(sym))))

\* sym.which(site)
WhichCall(site) == SymDone("which", NoneVal, site, NoneVal, WhichOf(sym, site))

\* sym.act(element, a, b)
ActCall(element, a, b) ==
    /\ sym.cls # "NoSymmetry" => Len(element.e) = sym.dirs
    /\ SymDone("act", element, a, b, ActOf(sym, element, a, b))

\* sym.to_fd(a, b)
ToFdCall(a, b) == SymDone("to_fd", NoneVal, a, b, ToFdOf(sym, a, b))

\* sym.in_fd(site)
InFdCall(site) == SymDone("in_fd", NoneVal, site, NoneVal, InFdOf(sym, site))

\* sym.subgroup(*generators), of a NoSymmetry
SubgroupCall(generators) ==
    /\ sym.cls = "NoSymmetry"
    /\ SymDone("subgroup", [t |-> "gens", g |-> generators], NoneVal, NoneVal,
               NoSymmetrySubgroup(generators))

\* The caller takes the result.
SymReturn ==
    /\ symOut.op # "none"
    /\ symOut' = SymNoOut
    /\ UNCHANGED <<sym, preVars, leadVars, infVars, nmVars, srVars, famVars, siteVars, vecVars>>

\* The arguments tried: every site with coordinates up to MaxCoord, the
\* site arrays that start at such a site and proceed by a fixed step, and
\* an object that is neither.
Tags == [1..MaxDirs -> (0 - MaxCoord)..MaxCoord]
Steps == {[d \in 1..MaxDirs |-> IF d = j THEN 1 ELSE 0] : j \in {0, 1, MaxDirs}}
Translate(tag, step, n) == [d \in 1..MaxDirs |-> tag[d] + n * step[d]]
SiteArgs == {SiteOf("f", tag) : tag \in Tags}
SiteArrayArgs ==
    {SiteArrayOf("f", [k \in 1..n |-> Translate(tag, step, k - 1)]) :
        tag \in Tags, step \in Steps, n \in 0..MaxTags}
OtherArg == [t |-> "other"]

\* The second site(s) of a hopping: none, or a neighbour of the first.
Neighbour(a) ==
    IF a.t = "Site" THEN SiteOf(a.family, Translate(a.tag, [d \in 1..MaxDirs |-> 1], 1))
    ELSE SiteArrayOf(a.family, [k \in 1..Len(a.tags) |->
                                   Translate(a.tags[k], [d \in 1..MaxDirs |-> 1], 1)])
Partners(a) == {NoneVal, Neighbour(a)}

ElementArgs == {ElemOf(q) : q \in UNION {[1..k -> -1..1] : k \in 0..MaxDirs}}
GeneratorArgs == UNION {[1..k -> ElementArgs] : k \in 0..MaxDirs}

Symmetries ==
    {[cls |-> "NoSymmetry", dirs |-> 0]}
    \cup {[cls |-> "Translation", dirs |-> n] : n \in 1..MaxDirs}

SymInit == sym \in Symmetries /\ symOut = SymNoOut

SymQuiet == sym = [cls |-> "NoSymmetry", dirs |-> 0] /\ symOut = SymNoOut

(***************************************************************************)
(* SiteFamily                                                              *)
(*                                                                         *)
(* A string is a sequence of character codes.                              *)
(***************************************************************************)
\* Python's `<` on strings
RECURSIVE StrLess(_, _)
StrLess(a, b) ==
    IF b = <<>> THEN FALSE
    ELSE IF a = <<>> THEN TRUE
    ELSE IF a[1] # b[1] THEN a[1] < b[1]
    ELSE StrLess(Tail(a), Tail(b))

\* Python's hash of a string: equal strings hash equally, different
\* strings may.
HashOf(str) == SumSeq(str) % (MaxReprLen + 1)

\* SiteFamily.__init__, of a family class cls
SiteFamilyInit(cls, canonical_repr, name, norbs) ==
    IF norbs # NoneVal /\ norbs.n <= 0 THEN Raised("ValueError")
    ELSE Returned([t |-> "SiteFamily", cls |-> cls, canonical_repr |-> canonical_repr,
                   hash |-> HashOf(canonical_repr), name |-> name, norbs |-> norbs])

HasCanonicalRepr(other) == "canonical_repr" \in DOMAIN other

\* Families are equal when representation and name are.
SiteFamilyEqWithName(self, other) ==
    IF HasCanonicalRepr(other)
    THEN self.canonical_repr = other.canonical_repr /\ self.name = other.name
    ELSE FALSE

\* SiteFamily.__eq__
SiteFamilyEq(self, other) ==
    IF HasCanonicalRepr(other) THEN self.canonical_repr = other.canonical_repr
    ELSE FALSE

\* SiteFamily.__ne__
SiteFamilyNe(self, other) ==
    IF HasCanonicalRepr(other) THEN self.canonical_repr # other.canonical_repr
    ELSE TRUE

\* SiteFamily.__hash__
SiteFamilyHash(self) == self.hash

\* SiteFamily.__lt__
SiteFamilyLt(self, other) == StrLess(self.canonical_repr, other.canonical_repr)

FamNoOut == [op |-> "none", i |-> 1, j |-> 1, val |-> NoneVal]

FamDone(op, i, j, v) ==
    /\ famOut.op = "none"
    /\ famOut' = [op |-> op, i |-> i, j |-> j, val |-> v]
    /\ UNCHANGED <<fams, preVars, leadVars, infVars, nmVars, srVars, symVars, siteVars, vecVars>>

\* fams[i] == fams[j]
FamEq(i, j) == FamDone("eq", i, j, BoolOf(SiteFamilyEq(fams[i], fams[j])))

\* fams[i] != fams[j]
FamNe(i, j) == FamDone("ne", i, j, BoolOf(SiteFamilyNe(fams[i], fams[j])))

\* fams[i] < fams[j]
FamLt(i, j) == FamDone("lt", i, j, BoolOf(SiteFamilyLt(fams[i], fams[j])))

\* hash(fams[i])
FamHash(i) == FamDone("hash", i, i, IntOf(SiteFamilyHash(fams[i])))

\* fams[i] == other and fams[i] != other, for an object that is no family
FamEqOther(i) == FamDone("eq_other", i, i, BoolOf(SiteFamilyEq(fams[i], OtherArg)))
FamNeOther(i) == FamDone("ne_other", i, i, BoolOf(SiteFamilyNe(fams[i], OtherArg)))

\* The caller takes the result.
FamReturn ==
    /\ famOut.op # "none"
    /\ famOut' = FamNoOut
    /\ UNCHANGED <<fams, preVars, leadVars, infVars, nmVars, srVars, symVars, siteVars, vecVars>>

\* The families tried.  The class tells how normalize_tag reports a bad
\* tag: with a message ("Lattice") or without one ("BareLattice").
Reprs == UNION {[1..k -> 1..2] : k \in 0..MaxReprLen}
FamilyClasses == {"Lattice", "BareLattice"}
FamilyNames == {<<>>, <<1>>}
NorbsArgs == {NoneVal} \cup {IntOf(n) : n \in 0..MaxNorbs}
Families ==
    {r.val : r \in {c \in {SiteFamilyInit(cls, cr, nm, nb) :
                              cls \in FamilyClasses, cr \in Reprs,
                              nm \in FamilyNames, nb \in NorbsArgs} : c.ok}}
PlainFamilies == {f \in Families : f.cls = "Lattice" /\ f.name = <<>> /\ f.norbs = IntOf(1)}

FamInit ==
    /\ \E f \in PlainFamilies, g \in Families : fams = <<f, g>>
    /\ famOut = FamNoOut

FamQuiet ==
    /\ fams = <<SiteFamilyInit("Lattice", <<>>, <<>>, IntOf(1)).val,
                SiteFamilyInit("Lattice", <<>>, <<>>, IntOf(1)).val>>
    /\ famOut = FamNoOut

(***************************************************************************)
(* Site                                                                    *)
(*                                                                         *)
(* A coordinate of a tag as given is an int, a float of integral value, a  *)
(* float of non-integral value ("half") or a string; a normalized tag has  *)
(* int coordinates only.                                                   *)
(***************************************************************************)
IntCoord(n) == [k |-> "int", v |-> n]
FloatCoord(n) == [k |-> "float", v |-> n]
HalfCoord == [k |-> "half"]
StrCoord == [k |-> "str"]

\* family.normalize_tag(tag): a tag of ints, or TypeError for a coordinate
\* that is no number and ValueError for one that is no integer.  The
\* exception carries a message, or no argument at all, by the family's class.
NormalizeTag(family, tag) ==
    LET args == IF family.cls = "BareLattice" THEN <<>> ELSE <<"not an integer tag">>
    IN  IF \E d \in 1..Len(tag) : tag[d].k = "str"
        THEN [ok |-> FALSE, exc |-> "TypeError", args |-> args, val |-> <<>>]
        ELSE IF \E d \in 1..Len(tag) : tag[d].k = "half"
        THEN [ok |-> FALSE, exc |-> "ValueError", args |-> args, val |-> <<>>]
        ELSE [ok |-> TRUE, exc |-> "", args |-> <<>>,
              val |-> [d \in 1..Len(tag) |-> IntCoord(tag[d].v)]]

\* Site.__new__(cls, family, tag, _i_know_what_i_do): the outcome and the
\* number of normalize_tag calls made.
SiteNew(family, tag, trusted) ==
    IF trusted
    THEN [ok |-> TRUE, exc |-> "", msg |-> NoneVal, site |-> SiteOf(family, tag),
          calls |-> 0]
    ELSE LET r == NormalizeTag(family, tag)
         IN  IF r.ok
             THEN [ok |-> TRUE, exc |-> "", msg |-> NoneVal,
                   site |-> SiteOf(family, r.val), calls |-> 1]
             ELSE IF r.args = <<>>
             THEN \* `e.args[0]` of an exception without arguments
                  [ok |-> FALSE, exc |-> "IndexError", msg |-> NoneVal,
                   site |-> NoneVal, calls |-> 1]
             ELSE [ok |-> FALSE, exc |-> r.exc,
                   msg |-> [t |-> "msg", tag |-> tag,
                            family |-> family.canonical_repr, inner |-> r.args[1]],
                   site |-> NoneVal, calls |-> 1]

\* Equality of sites: that of the tuples (family, tag).
SiteEq(a, b) == SiteFamilyEq(a.family, b.family) /\ a.tag = b.tag

\* Site.__getnewargs__
SiteGetNewArgs(site) == [family |-> site.family, tag |-> site.tag, trusted |-> TRUE]

SiteNoOut ==
    [op |-> "none", family |-> NoneVal, tag |-> <<>>, trusted |-> FALSE,
     ok |-> TRUE, exc |-> "", msg |-> NoneVal, site |-> NoneVal, calls |-> 0,
     from |-> NoneVal]

SiteDone(op, family, tag, trusted, from) ==
    LET r == SiteNew(family, tag, trusted)
    IN  /\ siteOut' = [op |-> op, family |-> family, tag |-> tag, trusted |-> trusted,
                       ok |-> r.ok, exc |-> r.exc, msg |-> r.msg, site |-> r.site,
                       calls |-> r.calls, from |-> from]
        /\ UNCHANGED <<preVars, leadVars, infVars, nmVars, srVars, symVars, famVars, vecVars>>

\* Site(family, tag) and Site(family, tag, True)
New(family, tag, trusted) ==
    /\ siteOut.op = "none"
    /\ SiteDone("new", family, tag, trusted, NoneVal)

\* The site just made is made again from its __getnewargs__.
Reconstruct ==
    /\ siteOut.op = "new" /\ siteOut.ok
    /\ LET a == SiteGetNewArgs(siteOut.site)
       IN  SiteDone("reconstruct", a.family, a.tag, a.trusted, siteOut.site)

\* The caller takes the result.
SiteReturn ==
    /\ siteOut.op # "none"
    /\ siteOut' = SiteNoOut
    /\ UNCHANGED <<preVars, leadVars, infVars, nmVars, srVars, symVars, famVars, vecVars>>

RawCoords ==
    {IntCoord(n) : n \in 0..MaxCoord} \cup {FloatCoord(n) : n \in 0..MaxCoord}
    \cup {HalfCoord, StrCoord}
RawTags == UNION {[1..k -> RawCoords] : k \in 0..MaxDirs}
SiteFamilyArgs == {f \in Families : f.name = <<>> /\ f.norbs = IntOf(1)}

SiteInit == siteOut = SiteNoOut

SiteQuiet == siteOut = SiteNoOut

(***************************************************************************)
(* InfiniteVectorizedSystem                                                *)
(*                                                                         *)
(* The system is its site arrays ([len, norbs]), of which the first        *)
(* `interface` ones hold the interface sites.  An outcome lists the        *)
(* methods of the system the accessor called.                              *)
(***************************************************************************)
\* Orbitals of the first n site arrays.
VecOrbitals(vs, n) == SumSeq([k \in 1..n |-> vs.arrays[k].len * vs.arrays[k].norbs])

\* The Hamiltonian terms a matrix of the whole cell is assembled from.
VecTermCalls(vs) == [k \in 1..Len(vs.arrays) |-> "hamiltonian_term"]

VecMatrix(sparse, rows, cols) ==
    [t |-> IF sparse THEN "sparse" ELSE "dense", shape |-> <<rows, cols>>]

\* _system.vectorized_cell_hamiltonian
VectorizedCellHamiltonian(vs, args, sparse, params) ==
    [ok |-> TRUE, exc |-> "", calls |-> VecTermCalls(vs),
     val |-> VecMatrix(sparse, VecOrbitals(vs, Len(vs.arrays)),
                       VecOrbitals(vs, Len(vs.arrays)))]

\* _system.vectorized_inter_cell_hopping
VectorizedInterCellHopping(vs, args, sparse, params) ==
    [ok |-> TRUE, exc |-> "", calls |-> VecTermCalls(vs),
     val |-> VecMatrix(sparse, VecOrbitals(vs, Len(vs.arrays)),
                       VecOrbitals(vs, vs.interface))]

\* The call is answered like a cell Hamiltonian unless a sparse matrix is
\* asked for.
HamiltonianSubmatrixRejectsSparse(vs, args, sparse, return_norb, params) ==
    IF sparse THEN [ok |-> FALSE, exc |-> "ValueError", calls |-> <<>>, val |-> NoneVal]
    ELSE VectorizedCellHamiltonian(vs, args, sparse, params)

\* InfiniteVectorizedSystem.hamiltonian_submatrix
InfiniteVectorizedHamiltonianSubmatrix(vs, args, sparse, return_norb, params) ==
    [ok |-> FALSE, exc |-> "ValueError", calls |-> <<>>, val |-> NoneVal]

VecNoOut ==
    [op |-> "none", args |-> <<>>, sparse |-> FALSE, return_norb |-> FALSE,
     params |-> NoneVal, ok |-> TRUE, exc |-> "", calls |-> <<>>, val |-> NoneVal]

VecDone(op, args, sparse, return_norb, params, r) ==
    /\ vecOut.op = "none"
    /\ vecOut' = [op |-> op, args |-> args, sparse |-> sparse,
                  return_norb |-> return_norb, params |-> params,
                  ok |-> r.ok, exc |-> r.exc, calls |-> r.calls, val |-> r.val]
    /\ UNCHANGED <<vsys, preVars, leadVars, infVars, nmVars, srVars, symVars,
                   famVars, siteVars>>

\* syst.hamiltonian_submatrix(args, sparse, return_norb, params=params)
VecHamiltonianSubmatrix(args, sparse, return_norb, params) ==
    VecDone("hamiltonian_submatrix", args, sparse, return_norb, params,
            InfiniteVectorizedHamiltonianSubmatrix(vsys, args, sparse, return_norb,
                                                   params))

\* syst.cell_hamiltonian(args, sparse, params=params)
VecCellHamiltonian(args, sparse, params) ==
    VecDone("cell_hamiltonian", args, sparse, FALSE, params,
            VectorizedCellHamiltonian(vsys, args, sparse, params))

\* syst.inter_cell_hopping(args, sparse, params=params)
VecInterCellHopping(args, sparse, params) ==
    VecDone("inter_cell_hopping", args, sparse, FALSE, params,
            VectorizedInterCellHopping(vsys, args, sparse, params))

\* The caller takes the result.
VecReturn ==
    /\ vecOut.op # "none"
    /\ vecOut' = VecNoOut
    /\ UNCHANGED <<vsys, preVars, leadVars, infVars, nmVars, srVars, symVars,
                   famVars, siteVars>>

VecArgs == {<<>>, <<1>>}
VecParams == {NoneVal, [t |-> "dict", d |-> "pA"], [t |-> "dict", d |-> "pB"]}

VecInit ==
    /\ \E q \in SiteArrayLists, i \in 0..MaxArrays :
          i <= Len(q) /\ vsys = [arrays |-> q, interface |-> i]
    /\ vecOut = VecNoOut

VecQuiet == vsys = [arrays |-> <<>>, interface |-> 0] /\ vecOut = VecNoOut

(***************************************************************************)
(* FiniteSystemMixin.precalculate                                          *)
(***************************************************************************)
\* Every value of `what` tried passes the test.
InvalidWhatLax(what) == what \notin Whats

\* `what not in ('modes', 'selfenergy', 'all')`.
InvalidWhat(what) == what \notin {"modes", "selfenergy", "all"}

\* A copy that is no copy: `result = self`.
CopyAlias(self, fresh) == self

\* `result = copy(self)`: the id of the object `result` names, given the id
\* of a fresh system object.
CopyTarget(self, fresh) == fresh

\* `if leads is None: leads = list(range(len(self.leads)))`.
NormalizeLeads(leadsArg, nleads) ==
    IF leadsArg = NoneVal THEN 0..(nleads - 1) ELSE leadsArg.items

\* Lead numbers taken to count from 1.
SelectedOneBased(nr, leads) == (nr + 1) \in leads

\* `nr not in leads` is false: lead number nr is to be precalculated.
Selected(nr, leads) == nr \in leads

\* `what in ('modes', 'all')`.
WantsModes(what) == what \in {"modes", "all"}

\* `what in ('selfenergy', 'all')`.
WantsSelfenergy(what) == what \in {"selfenergy", "all"}

\* The modes are never consulted for the self-energy.
SelfenergyNeverFromModes(modes) == FALSE

\* `if modes:` the self-energy is taken from the modes.
SelfenergyFromModes(modes) == Truthy(modes)

Ev(op, nr, lead) == [op |-> op, nr |-> nr, lead |-> lead]

\* The body of the loop over the leads for one selected lead: the calls
\* made (log), and the PrecalculatedLead built or the error raised.
PrecalculateLead(lead, nr, what, energy, params) ==
    LET m == IF WantsModes(what)
             THEN LeadModes(lead, energy, params)
             ELSE [ok |-> TRUE, exc |-> "", val |-> NoneVal]
        mlog == IF WantsModes(what) THEN <<Ev("lead.modes", nr, lead)>> ELSE <<>>
    IN  IF ~m.ok
        THEN [ok |-> FALSE, exc |-> m.exc, obj |-> FreePre, log |-> mlog]
        ELSE
        LET modes == m.val
            viaModes == WantsSelfenergy(what) /\ SelfenergyFromModes(modes)
            s == IF ~WantsSelfenergy(what)
                 THEN [ok |-> TRUE, exc |-> "", val |-> NoneVal]
                 ELSE IF viaModes
                      THEN [ok |-> TRUE, exc |-> "",
                            val |-> StabSelfenergy(modes.items[2])]
                      ELSE LeadSelfenergy(lead, energy, params)
            slog == IF ~WantsSelfenergy(what) THEN <<>>
                    ELSE IF viaModes
                         THEN <<Ev("modes[1].selfenergy", nr, lead)>>
                         ELSE <<Ev("lead.selfenergy", nr, lead)>>
        IN  IF ~s.ok
            THEN [ok |-> FALSE, exc |-> s.exc, obj |-> FreePre,
                  log |-> mlog \o slog]
            ELSE
            LET c == PrecalculatedLeadInit(modes, s.val)
            IN  [ok |-> c.ok, exc |-> c.exc, obj |-> c.obj, log |-> mlog \o slog]

\* The leads sequence of system s.
LeadsOf(s) == lists[systems[s].leads].items

\* A call raises: its frame records the error; the objects only the call
\* referred to (the copy, the new list, the leads it built) are garbage.
Raise(t, exc, log) ==
    LET f == th[t]
    IN  /\ th' = [th EXCEPT ![t] = [f EXCEPT !.pc = "raised", !.exc = exc,
                                             !.log = log, !.made = {},
                                             !.result = 0, !.new_leads = 0]]
        /\ systems' = [i \in SysIds |->
                         IF i = f.result /\ ~systems[i].published
                         THEN FreeSys ELSE systems[i]]
        /\ lists' = [i \in ListIds |-> IF i = f.new_leads THEN FreeList ELSE lists[i]]
        /\ pleads' = [i \in PreIds |-> IF i \in f.made THEN FreePre ELSE pleads[i]]

\* precalculate is called by thread t on system s: lines 719-726.
Call(t, s, energy, params, leadsArg, what) ==
    /\ th[t].pc \in {"idle", "done", "raised"}
    /\ ncalls < MaxCalls
    /\ systems[s].published
    /\ ncalls' = ncalls + 1
    /\ UNCHANGED <<leadVars, infVars, nmVars, srVars, symVars, famVars, siteVars, vecVars>>
    /\ IF InvalidWhat(what)
       THEN /\ th' = [th EXCEPT ![t] =
                        [IdleFrame EXCEPT !.pc = "raised", !.exc = "ValueError",
                                          !.self = s, !.what = what,
                                          !.call = ncalls + 1]]
            /\ UNCHANGED <<systems, lists, pleads>>
       ELSE LET rid == CopyTarget(s, NewSysId(ncalls + 1))
                lid == NewListId(ncalls + 1)
            IN  /\ systems' = [systems EXCEPT ![rid] =
                                 [live |-> TRUE, published |-> FALSE,
                                  leads |-> systems[s].leads]]
                /\ lists' = [lists EXCEPT ![lid] = [live |-> TRUE, items |-> <<>>]]
                /\ th' = [th EXCEPT ![t] =
                            [IdleFrame EXCEPT
                               !.pc = "loop", !.self = s, !.energy = energy,
                               !.params = params, !.what = what,
                               !.leadsArg = leadsArg,
                               !.leads = NormalizeLeads(leadsArg, Len(LeadsOf(s))),
                               !.result = rid, !.new_leads = lid,
                               !.call = ncalls + 1]]
                /\ UNCHANGED pleads

\* One iteration of `for nr, lead in enumerate(self.leads)`: lines 727-739.
Iter(t) ==
    LET f == th[t]
        lead == LeadsOf(f.self)[f.nr + 1]
    IN  /\ f.pc = "loop"
        /\ f.nr < Len(LeadsOf(f.self))
        /\ UNCHANGED <<ncalls, leadVars, infVars, nmVars, srVars, symVars, famVars, siteVars, vecVars>>
        /\ IF ~Selected(f.nr, f.leads)
           THEN /\ lists' = [lists EXCEPT ![f.new_leads].items = Append(@, lead)]
                /\ th' = [th EXCEPT ![t].nr = f.nr + 1]
                /\ UNCHANGED <<systems, pleads>>
           ELSE LET r == PrecalculateLead(lead, f.nr, f.what, f.energy, f.params)
                    pid == NewPreId(f.call, f.nr)
                IN  IF r.ok
                    THEN /\ pleads' = [pleads EXCEPT ![pid] = r.obj]
                         /\ lists' = [lists EXCEPT ![f.new_leads].items =
                                        Append(@, PreRef(pid))]
                         /\ th' = [th EXCEPT ![t].nr = f.nr + 1,
                                             ![t].log = f.log \o r.log,
                                             ![t].made = f.made \cup {pid}]
                         /\ UNCHANGED systems
                    ELSE Raise(t, r.exc, f.log \o r.log)

\* `result.leads = new_leads; return result`: lines 740-741.
Finish(t) ==
    LET f == th[t]
    IN  /\ f.pc = "loop"
        /\ f.nr >= Len(LeadsOf(f.self))
        /\ systems' = [systems EXCEPT ![f.result] =
                         [live |-> TRUE, published |-> TRUE, leads |-> f.new_leads]]
        /\ th' = [th EXCEPT ![t].pc = "done"]
        /\ UNCHANGED <<lists, pleads, ncalls, leadVars, infVars, nmVars, srVars, symVars, famVars, siteVars, vecVars>>

\* The source system: built by the construction layer with n leads.
PreInit(n) ==
    /\ lists = [i \in ListIds |->
                  IF i = 1
                  THEN [live |-> TRUE, items |-> [j \in 1..n |-> InfRef(j)]]
                  ELSE FreeList]
    /\ systems = [i \in SysIds |->
                    IF i = 1 THEN [live |-> TRUE, published |-> TRUE, leads |-> 1]
                    ELSE FreeSys]
    /\ pleads = [i \in PreIds |-> FreePre]
    /\ th = [t \in Threads |-> IdleFrame]
    /\ ncalls = 0

\* No PrecalculatedLead has been constructed by a caller.
LeadInit ==
    /\ plObj = FreePre
    /\ plGiven = [modes |-> NoneVal, selfenergy |-> NoneVal]
    /\ plOut = [op |-> "none", energy |-> 0, ok |-> TRUE, exc |-> "", val |-> NoneVal]
    /\ plCalls = 0

InitPre == (\E n \in 0..MaxLeads : PreInit(n)) /\ LeadInit /\ InfQuiet /\ NmQuiet /\ SrQuiet /\ SymQuiet /\ FamQuiet /\ SiteQuiet /\ VecQuiet

\* One caller: precalculate calls made one after the other, on the source
\* system or on the results of earlier calls.
NextPre ==
    \/ \E s \in SysIds, e \in Energies, p \in ParamSets,
          l \in LeadsArgs, w \in Whats : Call("t1", s, e, p, l, w)
    \/ Iter("t1")
    \/ Finish("t1")

SpecPre == InitPre /\ [][NextPre]_vars

\* Concurrent callers: every thread makes one call, and the steps of the
\* calls interleave.
NextPreConc ==
    \/ \E t \in Threads, s \in SysIds, e \in Energies, p \in ParamSets,
          l \in LeadsArgs, w \in Whats :
          th[t].pc = "idle" /\ Call(t, s, e, p, l, w)
    \/ \E t \in Threads : Iter(t)
    \/ \E t \in Threads : Finish(t)

SpecPreConc == InitPre /\ [][NextPreConc]_vars

(***************************************************************************)
(* A PrecalculatedLead constructed and used directly                       *)
(***************************************************************************)
\* The modes and self-energy values a caller may hand to the constructor.
ModesValues ==
    {NoneVal} \cup {InfModes(n, e, p) : n \in 1..MaxLeads, e \in Energies, p \in ParamSets}
SelfenergyValues ==
    {NoneVal} \cup {InfSelfenergy(n, e, p) : n \in 1..MaxLeads, e \in Energies,
                                            p \in ParamSets}

\* PrecalculatedLead(modes, selfenergy)
Construct(modes, selfenergy) ==
    LET c == PrecalculatedLeadInit(modes, selfenergy)
    IN  /\ plOut.op = "none"
        /\ plGiven' = [modes |-> modes, selfenergy |-> selfenergy]
        /\ plObj' = c.obj
        /\ plOut' = [op |-> "init", energy |-> 0, ok |-> c.ok, exc |-> c.exc,
                     val |-> NoneVal]
        /\ UNCHANGED <<plCalls, preVars, infVars, nmVars, srVars, symVars, famVars, siteVars, vecVars>>

\* lead.modes(energy, params=params) on the constructed object.
AccessModes(energy, params) ==
    LET r == PrecalculatedLeadModes(plObj, energy, params)
    IN  /\ plObj.live
        /\ plCalls < MaxAccess
        /\ plCalls' = plCalls + 1
        /\ plOut' = [op |-> "modes", energy |-> energy, ok |-> r.ok, exc |-> r.exc,
                     val |-> r.val]
        /\ UNCHANGED <<plObj, plGiven, preVars, infVars, nmVars, srVars, symVars, famVars, siteVars, vecVars>>

\* lead.selfenergy(energy, params=params) on the constructed object.
AccessSelfenergy(energy, params) ==
    LET r == PrecalculatedLeadSelfenergy(plObj, energy, params)
    IN  /\ plObj.live
        /\ plCalls < MaxAccess
        /\ plCalls' = plCalls + 1
        /\ plOut' = [op |-> "selfenergy", energy |-> energy, ok |-> r.ok,
                     exc |-> r.exc, val |-> r.val]
        /\ UNCHANGED <<plObj, plGiven, preVars, infVars, nmVars, srVars, symVars, famVars, siteVars, vecVars>>

InitLead == PreInit(0) /\ LeadInit /\ InfQuiet /\ NmQuiet /\ SrQuiet /\ SymQuiet /\ FamQuiet /\ SiteQuiet /\ VecQuiet

NextLead ==
    \/ \E m \in ModesValues, se \in SelfenergyValues : Construct(m, se)
    \/ \E e \in Energies, p \in ParamSets : AccessModes(e, p)
    \/ \E e \in Energies, p \in ParamSets : AccessSelfenergy(e, p)

SpecLead == InitLead /\ [][NextLead]_vars

InitInf == PreInit(0) /\ LeadInit /\ InfInit /\ NmQuiet /\ SrQuiet /\ SymQuiet /\ FamQuiet /\ SiteQuiet /\ VecQuiet

NextInf ==
    \/ \E e \in InfEnergies, p \in InfParams : Modes(e, p)
    \/ \E e \in InfEnergies, p \in InfParams : Selfenergy(e, p)
    \/ \E sp \in BOOLEAN, p \in InfParams : CellHamiltonian(sp, p)
    \/ \E sp \in BOOLEAN, p \in InfParams : InterCellHopping(sp, p)
    \/ Return

SpecInf == InitInf /\ [][NextInf]_vars

InitNm == PreInit(0) /\ LeadInit /\ InfQuiet /\ NmInit /\ SrQuiet /\ SymQuiet /\ FamQuiet /\ SiteQuiet /\ VecQuiet

NextNm == Normalize

SpecNm == InitNm /\ [][NextNm]_vars

InitSr == PreInit(0) /\ LeadInit /\ InfQuiet /\ NmQuiet /\ SrInit /\ SymQuiet /\ FamQuiet /\ SiteQuiet /\ VecQuiet

NextSr == \E i \in Instances : ReadSiteRanges(i)

SpecSr == InitSr /\ [][NextSr]_vars

InitSym == PreInit(0) /\ LeadInit /\ InfQuiet /\ NmQuiet /\ SrQuiet /\ SymInit /\ FamQuiet /\ SiteQuiet /\ VecQuiet

NextSym ==
    \/ NumDirections
    \/ symOut.op = "none" /\ \E site \in SiteArgs \cup SiteArrayArgs : WhichCall(site)
    \/ symOut.op = "none" /\ \E e \in ElementArgs, a \in SiteArgs \cup SiteArrayArgs :
          \E b \in Partners(a) : ActCall(e, a, b)
    \/ symOut.op = "none" /\ \E a \in SiteArgs \cup SiteArrayArgs :
          \E b \in Partners(a) : ToFdCall(a, b)
    \/ symOut.op = "none" /\ \E site \in SiteArgs \cup SiteArrayArgs \cup {OtherArg} :
          InFdCall(site)
    \/ symOut.op = "none" /\ \E g \in GeneratorArgs : SubgroupCall(g)
    \/ SymReturn

SpecSym == InitSym /\ [][NextSym]_vars

InitFam ==
    /\ PreInit(0) /\ LeadInit /\ InfQuiet /\ NmQuiet /\ SrQuiet /\ SymQuiet
    /\ FamInit /\ SiteQuiet /\ VecQuiet

NextFam ==
    \/ \E i, j \in 1..2 : FamEq(i, j)
    \/ \E i, j \in 1..2 : FamNe(i, j)
    \/ \E i, j \in 1..2 : FamLt(i, j)
    \/ \E i \in 1..2 : FamHash(i)
    \/ \E i \in 1..2 : FamEqOther(i)
    \/ \E i \in 1..2 : FamNeOther(i)
    \/ FamReturn

SpecFam == InitFam /\ [][NextFam]_vars

InitSite ==
    /\ PreInit(0) /\ LeadInit /\ InfQuiet /\ NmQuiet /\ SrQuiet /\ SymQuiet
    /\ FamQuiet /\ SiteInit /\ VecQuiet

NextSite ==
    \/ siteOut.op = "none" /\ \E f \in SiteFamilyArgs, tag \in RawTags,
                                   trusted \in BOOLEAN : New(f, tag, trusted)
    \/ Reconstruct
    \/ SiteReturn

SpecSite == InitSite /\ [][NextSite]_vars

InitVec ==
    /\ PreInit(0) /\ LeadInit /\ InfQuiet /\ NmQuiet /\ SrQuiet /\ SymQuiet
    /\ FamQuiet /\ SiteQuiet /\ VecInit

NextVec ==
    \/ vecOut.op = "none" /\ \E a \in VecArgs, sp \in BOOLEAN, rn \in BOOLEAN,
                                  p \in VecParams : VecHamiltonianSubmatrix(a, sp, rn, p)
    \/ vecOut.op = "none" /\ \E a \in VecArgs, sp \in BOOLEAN, p \in VecParams :
                                  VecCellHamiltonian(a, sp, p)
    \/ vecOut.op = "none" /\ \E a \in VecArgs, sp \in BOOLEAN, p \in VecParams :
                                  VecInterCellHopping(a, sp, p)
    \/ VecReturn

SpecVec == InitVec /\ [][NextVec]_vars

(***************************************************************************)
(* Properties of precalculate                                              *)
(***************************************************************************)
\* The calls of kind op made for lead number nr, in a call log.
EventsOf(log, op, nr) == {i \in 1..Len(log) : log[i].op = op /\ log[i].nr = nr}

\* Lead number nr is selected by the `leads` argument l of a call.
InSelection(l, nr) == l = NoneVal \/ nr \in l.items

\* C1: precalculate never mutates the system it is called on.  In every
\* step of every interleaving of concurrent calls, each system a caller
\* holds (the source, and every result returned so far) keeps its leads
\* list object, and that list keeps the same lead objects in the same
\* order; and the systems callers hold have pairwise distinct leads lists.
C1_SourceNeverMutated ==
    [][ /\ \A s \in SysIds :
              systems[s].published =>
                 /\ systems'[s].published
                 /\ systems'[s].leads = systems[s].leads
                 /\ lists'[systems[s].leads] = lists[systems[s].leads]
        /\ \A s1, s2 \in SysIds :
              (s1 # s2 /\ systems'[s1].published /\ systems'[s2].published)
                 => systems'[s1].leads # systems'[s2].leads ]_vars

\* Two calls on the source system overlapped: t2 started first and is still
\* in its loop, having precalculated a lead, when t1 has already returned.
C1_Witness ==
    /\ th["t1"].pc = "done" /\ th["t1"].self = 1
    /\ th["t2"].pc = "loop" /\ th["t2"].self = 1
    /\ th["t2"].call < th["t1"].call
    /\ th["t2"].made # {} /\ th["t1"].made # {}
    /\ Len(LeadsOf(1)) = MaxLeads

\* C2: a returned system has as many leads as the source, in the same
\* order: entry n is a PrecalculatedLead when n is selected (every n when
\* leads is None) and the very same lead object as the source's entry n
\* otherwise; modes / selfenergy were called for selected leads only.
C2_SelectedLeadsReplaced ==
    \A t \in Threads :
       th[t].pc = "done" =>
          LET f == th[t]
              src == LeadsOf(f.self)
              res == LeadsOf(f.result)
          IN  /\ systems[f.result].published
              /\ Len(res) = Len(src)
              /\ \A n \in 0..(Len(src) - 1) :
                    IF InSelection(f.leadsArg, n)
                    THEN /\ res[n + 1].k = "pre"
                         /\ pleads[res[n + 1].id].live
                         /\ res[n + 1] # src[n + 1]
                    ELSE res[n + 1] = src[n + 1]
              /\ \A i \in 1..Len(f.log) :
                    /\ InSelection(f.leadsArg, f.log[i].nr)
                    /\ f.log[i].lead = src[f.log[i].nr + 1]

\* A call returned that replaced the first of two leads and passed the
\* second one through.
C2_Witness ==
    \E t \in Threads :
       /\ th[t].pc = "done"
       /\ Len(LeadsOf(th[t].self)) = 2
       /\ th[t].leadsArg # NoneVal /\ th[t].leadsArg.items = {0}
       /\ LeadsOf(th[t].result)[1].k = "pre"
       /\ LeadsOf(th[t].result)[2] = InfRef(2)
       /\ Len(th[t].log) > 0

\* C3: with what = 'all', the lead's own selfenergy is never called; each
\* selected lead's modes is called exactly once (at most once in a call
\* that raises), and the self-energy stored is that of the second element
\* of its modes result.
C3_SelfenergyFromModes ==
    \A t \in Threads :
       LET f == th[t]
       IN  (f.what = "all" /\ f.pc \in {"loop", "done", "raised"}) =>
              /\ \A i \in 1..Len(f.log) : f.log[i].op # "lead.selfenergy"
              /\ \A n \in 0..(MaxLeads - 1) :
                    Cardinality(EventsOf(f.log, "lead.modes", n)) <= 1
              /\ f.pc = "done" =>
                    \A n \in 0..(Len(LeadsOf(f.self)) - 1) :
                       InSelection(f.leadsArg, n) =>
                          LET new == pleads[LeadsOf(f.result)[n + 1].id]
                              m == LeadModes(LeadsOf(f.self)[n + 1],
                                             f.energy, f.params)
                          IN  /\ Cardinality(EventsOf(f.log, "lead.modes", n)) = 1
                              /\ Cardinality(EventsOf(f.log, "modes[1].selfenergy", n)) = 1
                              /\ new._modes = m.val
                              /\ new._selfenergy.t = "array"
                              /\ new._selfenergy.via = "modes[1].selfenergy"
                              /\ new._selfenergy.lead = m.val.items[2].lead
                              /\ new._selfenergy.energy = m.val.items[2].energy

\* A call with what = 'all' returned, having precalculated two leads.
C3_Witness ==
    \E t \in Threads :
       /\ th[t].pc = "done" /\ th[t].what = "all"
       /\ Len(LeadsOf(th[t].self)) = 2
       /\ th[t].leadsArg = NoneVal
       /\ Len(th[t].log) = 4

(***************************************************************************)
(* Properties of PrecalculatedLead                                         *)
(***************************************************************************)
\* C4: a PrecalculatedLead only supplies what it was given.  Construction
\* fails, yielding no object, exactly when both modes and selfenergy are
\* None; a constructed object has parameters = {} and keeps the values it
\* was given through every call; modes(...) / selfenergy(...) return the
\* value given, whatever the energy and params, and raise a ValueError
\* exactly when that value was not given.
C4_PrecalculatedLeadSupplies ==
    /\ plOut.op # "none" =>
          /\ plObj.live <=> ~(plGiven.modes = NoneVal /\ plGiven.selfenergy = NoneVal)
          /\ plOut.op = "init" => (plOut.ok <=> plObj.live)
          /\ (plOut.op = "init" /\ ~plOut.ok) => plOut.exc = "ValueError"
    /\ plObj.live =>
          /\ plObj.parameters = {}
          /\ plObj._modes = plGiven.modes
          /\ plObj._selfenergy = plGiven.selfenergy
    /\ plOut.op = "modes" =>
          /\ plOut.ok <=> plGiven.modes # NoneVal
          /\ plOut.ok => plOut.val = plGiven.modes
          /\ ~plOut.ok => plOut.exc = "ValueError"
    /\ plOut.op = "selfenergy" =>
          /\ plOut.ok <=> plGiven.selfenergy # NoneVal
          /\ plOut.ok => plOut.val = plGiven.selfenergy
          /\ ~plOut.ok => plOut.exc = "ValueError"

\* A lead given modes only has been asked twice, and its selfenergy raised.
C4_Witness ==
    /\ plObj.live
    /\ plGiven.modes # NoneVal /\ plGiven.selfenergy = NoneVal
    /\ plCalls = MaxAccess
    /\ plOut.op = "selfenergy" /\ ~plOut.ok

(***************************************************************************)
(* Properties of infinite systems                                          *)
(***************************************************************************)
\* The value of attribute a of the descriptor the system declares.
Declared(a) == IF a \in isys.declared THEN "set" ELSE "None"

\* C5: in modes, for every symmetry name the validator reports broken, at
\* any energy, a warning is emitted and the descriptor handed to the mode
\* routine has that symmetry's field (projectors, time_reversal,
\* particle_hole, chiral) set to None; the mode routine is still called.
C5_BrokenSymmetriesDisabled ==
    mOut.op = "modes" =>
       /\ mOut.routine = "physics.modes"
       /\ \A a \in SymmetryAttrs :
             SymmetryName(a) \in mOut.broken =>
                /\ SymmetryName(a) \in mOut.warnings
                /\ mOut.symmetries[a] = "None"

\* C6: modes with energy # 0 hands the mode routine a descriptor whose
\* particle_hole and chiral are None whatever was validated; with
\* energy = 0 each of the two fields that was not reported broken is as
\* the system declared it.
C6_ZeroEnergySymmetries ==
    mOut.op = "modes" =>
       /\ mOut.energy # 0 =>
             /\ mOut.symmetries["particle_hole"] = "None"
             /\ mOut.symmetries["chiral"] = "None"
       /\ mOut.energy = 0 =>
             \A a \in {"particle_hole", "chiral"} :
                SymmetryName(a) \notin mOut.broken => mOut.symmetries[a] = Declared(a)

\* modes at a negative energy on a system declaring particle-hole and
\* chiral symmetry, neither of them reported broken.
C6_Witness ==
    /\ mOut.op = "modes" /\ mOut.energy = -1
    /\ {"particle_hole", "chiral"} \subseteq isys.declared
    /\ mOut.broken = {}
    /\ mOut.symmetries["particle_hole"] = "None"

\* Orbitals of the sites a .. b-1.
OrbitalCount(a, b) == SumSeq([k \in 1..(b - a) |-> Norbs(isys, a + k - 1)])

\* C7: cell_hamiltonian requests rows = cols = sites 0..c-1 and
\* inter_cell_hopping rows = sites 0..c-1, cols = sites c..N-1, with sparse
\* and params as given; the results have the shapes
\* (orbitals(0..c), orbitals(0..c)) and (orbitals(0..c), orbitals(c..N)).
C7_CellAndHoppingBlocks ==
    LET c == isys.cell_size
        n == isys.num_nodes
        cell == [i \in 1..c |-> i - 1]
        iface == [i \in 1..(n - c) |-> c + i - 1]
    IN  /\ mOut.op = "cell_hamiltonian" =>
              /\ mOut.requests = <<[rows |-> cell, cols |-> cell,
                                    sparse |-> mOut.sparse, params |-> mOut.params]>>
              /\ mOut.result[1].shape = <<OrbitalCount(0, c), OrbitalCount(0, c)>>
        /\ mOut.op = "inter_cell_hopping" =>
              /\ mOut.requests = <<[rows |-> cell, cols |-> iface,
                                    sparse |-> mOut.sparse, params |-> mOut.params]>>
              /\ mOut.result[1].shape = <<OrbitalCount(0, c), OrbitalCount(c, n)>>

\* The sparse hopping of a cell of two sites with 2 and 1 orbitals and one
\* interface site: a 3 x 2 matrix.
C7_Witness ==
    /\ mOut.op = "inter_cell_hopping" /\ mOut.sparse /\ mOut.params = "pB"
    /\ isys.cell_size = 2 /\ isys.num_nodes = 3 /\ isys.norbs = <<2, 1>>
    /\ mOut.result[1].shape = <<3, 2>>

(***************************************************************************)
(* Properties of _normalize_matrix_blocks                                  *)
(***************************************************************************)
\* C8: the rules go by the number of dimensions of the value.  When an
\* array is returned: for a scalar v it is count 1x1 blocks all equal to v;
\* for a 1-D vector, one 1x1 block per entry, in order; for a 2-D matrix M,
\* count copies of M (whatever M's first dimension); for a 3-D value, the
\* value itself; each element as a complex number.
C8_BroadcastRules ==
    (nmOut.op = "normalize" /\ nmOut.ok) =>
       LET in == nmIn.blocks
           count == nmIn.expected_shape[1]
           out == nmOut.val
           nd == Len(in.shape)
           size == Product(in.shape)
       IN  /\ nd <= 3
           /\ nd = 0 =>
                 /\ out.shape = <<count, 1, 1>>
                 /\ Len(out.flat) = count
                 /\ \A i \in 1..count : out.flat[i] = ToComplex(in.flat[1])
           /\ nd = 1 =>
                 /\ out.shape = <<in.shape[1], 1, 1>>
                 /\ Len(out.flat) = in.shape[1]
                 /\ \A i \in 1..in.shape[1] : out.flat[i] = ToComplex(in.flat[i])
           /\ nd = 2 =>
                 /\ out.shape = <<count, in.shape[1], in.shape[2]>>
                 /\ Len(out.flat) = count * size
                 /\ \A c \in 0..(count - 1) : \A i \in 1..size :
                       out.flat[c * size + i] = ToComplex(in.flat[i])
           /\ nd = 3 =>
                 /\ out.shape = in.shape
                 /\ Len(out.flat) = size
                 /\ \A i \in 1..size : out.flat[i] = ToComplex(in.flat[i])

\* A 2 x 2 matrix of ints was tiled into two blocks: the case of a first
\* dimension equal to count.
C8_Witness ==
    /\ nmOut.op = "normalize" /\ nmOut.ok
    /\ nmIn.blocks.shape = <<2, 2>> /\ nmIn.expected_shape = <<2, 2, 2>>
    /\ nmIn.blocks.flat[1].k = "int"
    /\ nmOut.val.flat[5] = [k |-> "complex", re |-> 1, im |-> 0]
    /\ nmOut.val.flat[2] # nmOut.val.flat[1]

\* C9: an array is returned only with exactly the expected shape, and
\* exactly for: a scalar when rows = cols = 1; a 1-D vector of length count
\* when rows = cols = 1; a 2-D matrix of shape (rows, cols); a 3-D array of
\* the expected shape.  Every other value (4 or more dimensions included)
\* raises a ValueError.
C9_ExactShapeOrError ==
    nmOut.op = "normalize" =>
       LET in == nmIn.blocks
           e == nmIn.expected_shape
           nd == Len(in.shape)
           fits == /\ in.t = "array"
                   /\ \/ nd = 0 /\ e[2] = 1 /\ e[3] = 1
                      \/ nd = 1 /\ e[2] = 1 /\ e[3] = 1 /\ in.shape[1] = e[1]
                      \/ nd = 2 /\ in.shape = <<e[2], e[3]>>
                      \/ nd = 3 /\ in.shape = e
       IN  /\ nmOut.ok <=> fits
           /\ nmOut.ok => nmOut.val.shape = e
           /\ ~nmOut.ok => nmOut.exc = "ValueError"

\* A 2 x 1 matrix against the expected shape (2, 1, 1) was refused: its
\* first dimension is count, but it is read as one block.
C9_Witness ==
    /\ nmOut.op = "normalize" /\ ~nmOut.ok
    /\ nmIn.blocks.t = "array"
    /\ nmIn.blocks.shape = <<2, 1>> /\ nmIn.expected_shape = <<2, 1, 1>>

(***************************************************************************)
(* Properties of site_ranges                                               *)
(***************************************************************************)
\* Sites, and orbitals, of the first n site arrays of a list.
SitesBefore(arrays, n) == SumSeq([k \in 1..n |-> arrays[k].len])
OrbitalsBefore(arrays, n) == SumSeq([k \in 1..n |-> arrays[k].len * arrays[k].norbs])

\* C10: every access of site_ranges returns the table of the instance it
\* is made on: row k is (sites in the arrays before k, norbs of array k,
\* orbitals in the arrays before k), followed by the row
\* (all sites, 0, all orbitals); so orb_offset[k+1] =
\* orb_offset[k] + (first_site[k+1] - first_site[k]) * norbs[k].
C10_SiteRangesOfInstance ==
    srOut.op = "read" =>
       LET arrays == site_arrays[srOut.inst]
           n == Len(arrays)
           tab == srOut.val
       IN  /\ Len(tab) = n + 1
           /\ \A k \in 1..n :
                 tab[k] = <<SitesBefore(arrays, k - 1), arrays[k].norbs,
                            OrbitalsBefore(arrays, k - 1)>>
           /\ tab[n + 1] = <<SitesBefore(arrays, n), 0, OrbitalsBefore(arrays, n)>>
           /\ \A k \in 1..n :
                 tab[k + 1][3] = tab[k][3] + (tab[k + 1][1] - tab[k][1]) * tab[k][2]

\* Instance "a" was read again after "b", whose table differs, had been
\* read in between.
C10_Witness ==
    /\ srOut.op = "read" /\ srOut.inst = "a"
    /\ srComputes["b"] >= 1 /\ srComputes["a"] >= 2
    /\ Len(site_arrays["a"]) = 2
    /\ SiteRangesOf(site_arrays["a"]) # SiteRangesOf(site_arrays["b"])
    /\ srOut.val[3][3] > 0

\* C11: the derivation of site_ranges from site_arrays runs at most once
\* for each instance, in any sequence of accesses on the live instances.
C11_ComputedOncePerInstance ==
    \A i \in Instances : srComputes[i] <= 1

(***************************************************************************)
(* Properties of symmetries                                                *)
(***************************************************************************)
\* which(site) is the identity element.
IsIdentity(s, site) == \A d \in 1..s.dirs : site.tag[d] = 0

\* C12: Symmetry.in_fd returns, for a Site, True iff every coordinate of
\* which(site) is 0; for a SiteArray, one boolean per site, True iff every
\* coordinate of that site's row of which is 0, equal to in_fd of that
\* site; for any other argument it raises TypeError.
C12_InFdIffIdentity ==
    (sym.cls = "Translation" /\ symOut.op = "in_fd") =>
       LET x == symOut.a
       IN  /\ x.t = "Site" =>
                symOut.ok /\ symOut.val = BoolOf(IsIdentity(sym, x))
           /\ x.t = "SiteArray" =>
                /\ symOut.ok
                /\ symOut.val.t = "bools"
                /\ Len(symOut.val.bs) = Len(x.tags)
                /\ \A k \in 1..Len(x.tags) :
                      /\ symOut.val.bs[k] = IsIdentity(sym, SiteOf(x.family, x.tags[k]))
                      /\ BoolOf(symOut.val.bs[k])
                            = InFdOf(sym, SiteOf(x.family, x.tags[k])).val
           /\ x.t = "other" => ~symOut.ok /\ symOut.exc = "TypeError"

\* The (first) site or site array of a to_fd result.
FirstOf(v) == IF v.t = "pair" THEN v.a ELSE v
SecondOf(v) == IF v.t = "pair" THEN v.b ELSE NoneVal

\* in_fd answers True, for the site or for every site of the array.
AllInFd(r) ==
    /\ r.ok
    /\ r.val.t = "bool" => r.val.b
    /\ r.val.t = "bools" => \A k \in 1..Len(r.val.bs) : r.val.bs[k]

\* C13: to_fd(a, b) is act(-which(a), a, b); applying to_fd to its result
\* gives the same result; and in_fd of the (first) site of the result is
\* true, for a single Site and for every site of a SiteArray.
C13_ToFdProjects ==
    symOut.op = "to_fd" =>
       /\ symOut.ok
       /\ symOut.val
             = ActOf(sym, Neg(WhichOf(sym, symOut.a).val), symOut.a, symOut.b).val
       /\ ToFdOf(sym, FirstOf(symOut.val), SecondOf(symOut.val)).val = symOut.val
       /\ AllInFd(InFdOf(sym, FirstOf(symOut.val)))

\* C14: NoSymmetry has num_directions 0, which(site) the empty element,
\* in_fd True for every argument, to_fd and act with the empty element
\* returning a (or (a, b)) unchanged, and act with a non-empty element
\* raising ValueError and returning nothing.
C14_NoSymmetryTrivial ==
    sym.cls = "NoSymmetry" =>
       LET same == IF symOut.b = NoneVal THEN symOut.a ELSE PairOf(symOut.a, symOut.b)
       IN  /\ symOut.op = "num_directions" => symOut.ok /\ symOut.val = IntOf(0)
           /\ symOut.op = "which" => symOut.ok /\ symOut.val = ElemOf(<<>>)
           /\ symOut.op = "in_fd" => symOut.ok /\ symOut.val = BoolOf(TRUE)
           /\ symOut.op = "to_fd" => symOut.ok /\ symOut.val = same
           /\ (symOut.op = "act" /\ symOut.element.e = <<>>) =>
                 symOut.ok /\ symOut.val = same
           /\ (symOut.op = "act" /\ symOut.element.e # <<>>) =>
                 ~symOut.ok /\ symOut.exc = "ValueError" /\ symOut.val = NoneVal

\* NoSymmetry was asked to act on a hopping with a non-empty element whose
\* coordinates are all zero, and raised.
C14_Witness ==
    /\ sym.cls = "NoSymmetry"
    /\ symOut.op = "act"
    /\ symOut.element = ElemOf(<<0>>)
    /\ symOut.a.t = "Site" /\ symOut.b # NoneVal
    /\ ~symOut.ok

(***************************************************************************)
(* Properties of site families and sites                                   *)
(***************************************************************************)
\* a comes before b in lexicographic order: at the first position where
\* they differ, a has ended or has the smaller character.
LexBefore(a, b) ==
    \E k \in 1..Len(b) :
       /\ \A j \in 1..(k - 1) : j <= Len(a) /\ a[j] = b[j]
       /\ k - 1 <= Len(a)
       /\ (k > Len(a) \/ a[k] < b[k])

ExactlyOne(p, q, r) == (p /\ ~q /\ ~r) \/ (~p /\ q /\ ~r) \/ (~p /\ ~q /\ r)

\* C15: for two site families a and b, a == b iff their canonical_repr are
\* equal, a != b is the negation of a == b, equal families have equal
\* hashes, a < b iff a.canonical_repr < b.canonical_repr with exactly one
\* of a < b, a == b, b < a; and a family == an object without
\* canonical_repr is False.
C15_FamilyComparisons ==
    LET a == fams[famOut.i]
        b == fams[famOut.j]
        same == a.canonical_repr = b.canonical_repr
    IN  /\ famOut.op = "eq" => famOut.val = BoolOf(same)
        /\ famOut.op = "ne" =>
              famOut.val = BoolOf(~same) /\ famOut.val.b = ~SiteFamilyEq(a, b)
        /\ famOut.op = "hash" =>
              \A k \in 1..2 : SiteFamilyEq(a, fams[k]) =>
                                 famOut.val = IntOf(SiteFamilyHash(fams[k]))
        /\ famOut.op = "lt" =>
              /\ famOut.val = BoolOf(LexBefore(a.canonical_repr, b.canonical_repr))
              /\ ExactlyOne(famOut.val.b, SiteFamilyEq(a, b), SiteFamilyLt(b, a))
        /\ famOut.op = "eq_other" => famOut.val = BoolOf(FALSE)
        /\ famOut.op = "ne_other" => famOut.val = BoolOf(TRUE)

\* Two family objects of the same canonical_repr but of different name,
\* norbs and class were found equal.
C15_Witness ==
    /\ famOut.op = "eq" /\ famOut.i = 1 /\ famOut.j = 2
    /\ fams[1].canonical_repr = fams[2].canonical_repr
    /\ Len(fams[1].canonical_repr) = 2
    /\ fams[1].name # fams[2].name
    /\ fams[1].norbs # fams[2].norbs
    /\ fams[1].cls # fams[2].cls
    /\ famOut.val = BoolOf(TRUE)

\* C16: Site(family, tag) stores family.normalize_tag(tag), calling
\* normalize_tag exactly once; when normalize_tag raises TypeError or
\* ValueError, the construction raises an error of that type with a
\* message naming the tag, the family and the original message, and makes
\* no Site; with the trusted flag the tag is stored as given and
\* normalize_tag is not called; a Site made again from its (family, tag)
\* by the trusted path equals the Site.
C16_SiteConstruction ==
    LET n == NormalizeTag(siteOut.family, siteOut.tag)
    IN  /\ (siteOut.op = "new" /\ ~siteOut.trusted) =>
              /\ siteOut.calls = 1
              /\ n.ok => siteOut.ok /\ siteOut.site = SiteOf(siteOut.family, n.val)
              /\ ~n.ok =>
                    /\ ~siteOut.ok
                    /\ siteOut.exc = n.exc
                    /\ siteOut.msg # NoneVal
                    /\ siteOut.site = NoneVal
        /\ (siteOut.op = "new" /\ siteOut.trusted) =>
              /\ siteOut.calls = 0
              /\ siteOut.ok
              /\ siteOut.site = SiteOf(siteOut.family, siteOut.tag)
        /\ siteOut.op = "reconstruct" =>
              /\ siteOut.calls = 0
              /\ siteOut.ok
              /\ SiteEq(siteOut.site, siteOut.from)

(***************************************************************************)
(* Further properties of precalculate                                      *)
(***************************************************************************)
\* C17: a precalculate call whose `what` is none of 'modes', 'selfenergy'
\* and 'all' ends at once with a ValueError: no modes or selfenergy of a
\* lead is called, no copy is made or returned, and no system, list of
\* leads or lead changes.
C17_InvalidWhatRejected ==
    [][\A t \in Threads :
          (th'[t].call # th[t].call
           /\ th'[t].what \notin {"modes", "selfenergy", "all"}) =>
             /\ th'[t].pc = "raised"
             /\ th'[t].exc = "ValueError"
             /\ th'[t].log = <<>>
             /\ th'[t].result = 0
             /\ th'[t].made = {}
             /\ systems' = systems
             /\ lists' = lists
             /\ pleads' = pleads]_vars

\* A second call, on a system with leads that an earlier call has
\* returned a copy of, was made with an invalid `what` and raised.
C17_Witness ==
    /\ th["t1"].pc = "raised"
    /\ th["t1"].what = "bogus"
    /\ th["t1"].call = 2
    /\ Len(LeadsOf(th["t1"].self)) > 0
    /\ \E s \in SysIds : s # 1 /\ systems[s].published

(***************************************************************************)
(* Properties of InfiniteVectorizedSystem                                  *)
(***************************************************************************)
\* C18: hamiltonian_submatrix of an infinite vectorized system raises
\* ValueError for every args, sparse, return_norb and params and evaluates
\* no Hamiltonian term; cell_hamiltonian and inter_cell_hopping return a
\* matrix and never call hamiltonian_submatrix.
C18_SubmatrixRejected ==
    /\ vecOut.op = "hamiltonian_submatrix" =>
          /\ ~vecOut.ok
          /\ vecOut.exc = "ValueError"
          /\ vecOut.val = NoneVal
          /\ vecOut.calls = <<>>
    /\ vecOut.op \in {"cell_hamiltonian", "inter_cell_hopping"} =>
          /\ vecOut.ok
          /\ vecOut.val # NoneVal
          /\ \A k \in 1..Len(vecOut.calls) : vecOut.calls[k] # "hamiltonian_submatrix"

\* A dense matrix without norbs was asked of a system with sites, with
\* params, and the call raised.
C18_Witness ==
    /\ vecOut.op = "hamiltonian_submatrix"
    /\ ~vecOut.sparse /\ ~vecOut.return_norb
    /\ vecOut.params # NoneVal
    /\ Len(vsys.arrays) = 2 /\ vsys.interface = 1
    /\ VecOrbitals(vsys, 2) > 0
    /\ ~vecOut.ok

(***************************************************************************)
(* Further properties of infinite systems                                  *)
(***************************************************************************)
\* C19: modes and selfenergy hand the external routine the cell
\* Hamiltonian with energy subtracted from every diagonal entry and every
\* other entry unchanged, and the inter-cell hopping unchanged; modes
\* validates the symmetries on the matrices as they are before the shift;
\* selfenergy asks for no symmetry descriptor and validates nothing.
C19_DiagonalShift ==
    mOut.op \in {"modes", "selfenergy"} =>
       LET ham == CellHamiltonianOf(isys, FALSE, mOut.params).val
           hop == InterCellHoppingOf(isys, FALSE, mOut.params).val
           n == ham.shape[1]
       IN  /\ Len(mOut.handed) = 2
           /\ mOut.handed[1].shape = ham.shape
           /\ \A i, j \in 1..n :
                 mOut.handed[1].data[i][j]
                    = IF i = j THEN ham.data[i][j] - mOut.energy ELSE ham.data[i][j]
           /\ mOut.handed[2] = hop
           /\ mOut.op = "modes" => mOut.validated = <<ham, hop>>
           /\ mOut.op = "selfenergy" =>
                 /\ mOut.validated = <<>>
                 /\ mOut.symmetries = <<>>
                 /\ mOut.broken = {}
                 /\ mOut.routine = "physics.selfenergy"

\* selfenergy at a nonzero energy on a cell with three orbitals.
C19_Witness ==
    /\ mOut.op = "selfenergy" /\ mOut.energy = -1
    /\ Len(mOut.handed) = 2
    /\ mOut.handed[1].shape = <<3, 3>>
    /\ mOut.handed[1].data[2][2]
          = CellHamiltonianOf(isys, FALSE, mOut.params).val.data[2][2] + 1
    /\ mOut.handed[1].data[1][2] # 0

(***************************************************************************)
(* Further properties of site_ranges                                       *)
(***************************************************************************)
\* C20: in every site_ranges table, whatever the site arrays (also arrays
\* of length 0), first_site strictly increases from each row to the next,
\* so that no first_site appears twice, and orb_offset never decreases.
C20_FirstSiteStrictlyIncreasing ==
    srOut.op = "read" =>
       /\ \A k \in 1..(Len(srOut.val) - 1) :
             /\ srOut.val[k][1] < srOut.val[k + 1][1]
             /\ srOut.val[k][3] <= srOut.val[k + 1][3]
       /\ \A k, l \in 1..Len(srOut.val) :
             srOut.val[k][1] = srOut.val[l][1] => k = l

(***************************************************************************)
(* Repeated precalculation                                                 *)
(***************************************************************************)
\* C21: when a precalculate call comes to a selected lead that is already
\* a PrecalculatedLead holding modes M: with what 'modes' or 'all', at any
\* energy and params, the lead put in the result is a new PrecalculatedLead
\* whose modes are M; with what 'selfenergy', if the lead holds no
\* self-energy, the call raises ValueError and the system it was called
\* on, its list of leads and the lead stay as they are.
C21_PrecalculationSticky ==
    [][\A t \in Threads :
          LET f == th[t]
              lead == LeadsOf(f.self)[f.nr + 1]
              old == pleads[lead.id]
          IN  (/\ f.pc = "loop"
               /\ th'[t] # f
               /\ f.nr < Len(LeadsOf(f.self))
               /\ InSelection(f.leadsArg, f.nr)
               /\ lead.k = "pre"
               /\ old._modes # NoneVal) =>
                 /\ f.what \in {"modes", "all"} =>
                       /\ th'[t].pc = "loop"
                       /\ Len(lists'[f.new_leads].items) = f.nr + 1
                       /\ LET new == lists'[f.new_leads].items[f.nr + 1]
                          IN  /\ new.k = "pre"
                              /\ new # lead
                              /\ pleads'[new.id].live
                              /\ pleads'[new.id]._modes = old._modes
                 /\ (f.what = "selfenergy" /\ old._selfenergy = NoneVal) =>
                       /\ th'[t].pc = "raised"
                       /\ th'[t].exc = "ValueError"
                       /\ systems'[f.self] = systems[f.self]
                       /\ lists'[systems[f.self].leads] = lists[systems[f.self].leads]
                       /\ pleads'[lead.id] = old]_vars

\* A second call, with what = 'all' and at another energy than the first,
\* returned a system whose lead holds the modes of the first call.
C21_Witness ==
    LET f == th["t1"]
    IN  /\ f.pc = "done" /\ f.call = 2 /\ f.what = "all"
        /\ f.self # 1
        /\ Len(LeadsOf(f.self)) > 0
        /\ LeadsOf(f.self)[1].k = "pre"
        /\ LeadsOf(f.result)[1].k = "pre"
        /\ LeadsOf(f.result)[1] # LeadsOf(f.self)[1]
        /\ pleads[LeadsOf(f.self)[1].id]._modes # NoneVal
        /\ pleads[LeadsOf(f.self)[1].id]._modes.items[1].energy # f.energy
        /\ pleads[LeadsOf(f.result)[1].id]._modes
              = pleads[LeadsOf(f.self)[1].id]._modes

(***************************************************************************)
(* Subgroups of NoSymmetry                                                 *)
(***************************************************************************)
\* C22: NoSymmetry.subgroup with no generators, or with empty generators
\* only, returns a symmetry equal to NoSymmetry(), each of the two having
\* the other as a subgroup; with a non-empty generator it raises
\* ValueError.
C22_NoSymmetrySubgroup ==
    (sym.cls = "NoSymmetry" /\ symOut.op = "subgroup") =>
       LET gens == symOut.element.g
           trivial == [t |-> "sym", cls |-> "NoSymmetry", dirs |-> 0]
       IN  IF \A k \in 1..Len(gens) : gens[k].e = <<>>
           THEN /\ symOut.ok
                /\ NoSymmetryEq(symOut.val, trivial)
                /\ NoSymmetryEq(trivial, symOut.val)
                /\ NoSymmetryHasSubgroup(trivial, symOut.val)
                /\ NoSymmetryHasSubgroup(symOut.val, trivial)
           ELSE ~symOut.ok /\ symOut.exc = "ValueError"

=============================================================================
